---- MODULE Spec2Model ----
(***************************************************************************)
(* suffixlemmatizer: the suffix statistics engine of Model.cpp.            *)
(*                                                                         *)
(* Strings are sequences of byte values.  Offsets into a string are        *)
(* 0-based as in the source; the sequences that hold them are 1-based.     *)
(* A std::unordered_map is a sequence of entries in iteration order.       *)
(***************************************************************************)
EXTENDS Integers, Sequences, FiniteSets, TLC

VARIABLES
    model,        \* the Model object: _lemcounts, _infcounts, _replacements,
                  \* _max_suffix_size, _is_trimmed
    frontInsert,  \* the build's unordered_map puts a new key first (TRUE)
                  \* or last (FALSE) in iteration order
    disk,         \* the model file: [exists, bytes]
    last,         \* the last operation and what it returned or threw
    hist          \* history: the update calls behind `model`, and whether a
                  \* hand-edited file is behind the model or the file

vars == <<model, frontInsert, disk, last, hist>>

\* ---------------------------------------------------------------- bounds
MaxSuffix == 2    \* Init draws max_suffix_size from 1..MaxSuffix
MaxUpdates == 2   \* update calls per behaviour
MaxCount == 2     \* counts of a corpus line are 1..MaxCount

\* ---------------------------------------------------------------- bytes
Dollar == 36
Tab == 9
Newline == 10
MAX_LINE_LENGTH == 1024

\* 'a' = 97, 's' = 115
TrainPairs ==
    { <<<<97>>, <<97>>>>,            \* a   -> a
      <<<<97, 115>>, <<97>>>>,       \* as  -> a
      <<<<115>>, <<97>>>>,           \* s   -> a
      <<<<115>>, <<97, 115>>>> }     \* s   -> as

QueryWords == { <<97>>, <<115>>, <<97, 115>>, <<115, 115>> }

\* ---------------------------------------------------------------- strings
isspace(c) == c \in {9, 10, 11, 12, 13, 32}

RECURSIVE ltrim(_)
ltrim(s) ==
    IF s # <<>> /\ isspace(Head(s)) THEN ltrim(Tail(s)) ELSE s

RECURSIVE rtrim(_)
rtrim(s) ==
    IF s # <<>> /\ isspace(s[Len(s)]) THEN rtrim(SubSeq(s, 1, Len(s) - 1)) ELSE s

suflem_trim(s) == ltrim(rtrim(s))

\* std::string::substr with 0-based positions
substr(s, pos) == SubSeq(s, pos + 1, Len(s))
substr2(s, pos, len) == SubSeq(s, pos + 1, pos + len)

\* c >> k on an unsigned char
Shr(c, k) == c \div (2 ^ k)

masks == <<0, 6, 14, 30, 62, 126>>
shift == <<7, 5, 4, 3, 2, 1>>

found_start(c) == \E j \in 1..6 : Shr(c, shift[j]) = masks[j]

\* the offsets store_codepoints pushes while scanning bytes i..n-1 (0-based),
\* or "error" from the first byte that is neither a start nor an inner
\* continuation byte on
RECURSIVE ScanCodepoints(_, _, _)
ScanCodepoints(s, i, v) ==
    IF i >= Len(s) THEN [ok |-> TRUE, v |-> v]
    ELSE LET c == s[i + 1] IN
         IF found_start(c) THEN ScanCodepoints(s, i + 1, Append(v, i))
         ELSE IF Shr(c, 6) # 2 \/ i = 0 THEN [ok |-> FALSE, v |-> v]
         ELSE ScanCodepoints(s, i + 1, v)

store_codepoints(s) == ScanCodepoints(s, 0, <<>>)

Min(a, b) == IF a < b THEN a ELSE b
Max(a, b) == IF a > b THEN a ELSE b

\* the inner loop of common_prefix_size: bytes preflen..acp[j]-1 agree
BytesAgreeAlways(a, b, from, to) == TRUE
BytesAgree(a, b, from, to) ==
    \A i \in from..(to - 1) : a[i + 1] = b[i + 1]

RECURSIVE PrefixLoop(_, _, _, _, _, _, _)
PrefixLoop(a, b, acp, bcp, j, N, preflen) ==
    IF j >= N THEN N
    ELSE IF acp[j + 1] # bcp[j + 1] THEN j
    ELSE IF ~BytesAgree(a, b, preflen, acp[j + 1]) THEN j
    ELSE PrefixLoop(a, b, acp, bcp, j + 1, N, acp[j + 1])

common_prefix_size(a, b, acodepoints, bcodepoints) ==
    PrefixLoop(a, b, acodepoints, bcodepoints, 0,
               Min(Len(acodepoints), Len(bcodepoints)), 0)

\* ---------------------------------------------------------------- tables
\* std::unordered_map<std::string, std::pair<long, long>> as the sequence of
\* its entries [key, tp, fp] in iteration order
Find(tbl, key) ==
    IF \E k \in 1..Len(tbl) : tbl[k].key = key
    THEN CHOOSE k \in 1..Len(tbl) : tbl[k].key = key
    ELSE 0

\* operator[] on a missing key creates the entry; where it lands in the
\* iteration order is the container's choice
Insert(tbl, e) == IF frontInsert THEN <<e>> \o tbl ELSE Append(tbl, e)

\* data.first += tp; data.second += fp
AddCountsReplace(data, tp, fp) == [data EXCEPT !.tp = tp, !.fp = fp]
AddCounts(data, tp, fp) == [data EXCEPT !.tp = @ + tp, !.fp = @ + fp]

Accumulate(tbl, key, tp, fp) ==
    LET k == Find(tbl, key) IN
    IF k = 0 THEN Insert(tbl, AddCounts([key |-> key, tp |-> 0, fp |-> 0], tp, fp))
    ELSE [tbl EXCEPT ![k] = AddCounts(@, tp, fp)]

EmptyModel(max_suffix_size) ==
    [ lemcounts |-> <<>>, infcounts |-> <<>>, replacements |-> <<>>,
      max_suffix_size |-> max_suffix_size, is_trimmed |-> FALSE ]

update_replacement(M, inf, lem, tp, fp) ==
    LET reps == M.replacements
        k == Find(reps, inf)
    IN  IF k = 0
        THEN [M EXCEPT !.replacements =
                Insert(reps, [key |-> inf, inner |-> Accumulate(<<>>, lem, tp, fp)])]
        ELSE [M EXCEPT !.replacements[k].inner = Accumulate(@, lem, tp, fp)]

update_inflected(M, inf, tp, fp) ==
    [M EXCEPT !.infcounts = Accumulate(@, inf, tp, fp)]

update_lemma(M, lem, tp, fp) ==
    [M EXCEPT !.lemcounts = Accumulate(@, lem, tp, fp)]

\* ---------------------------------------------------------------- update
\* bool is_trimmed() const { return _is_trimmed; }
is_trimmed_never(M) == FALSE
is_trimmed(M) == M.is_trimmed

\* if (i <= prefixsize-1): the pair is stored as a true positive
IsCorrectStrict(i, prefixsize) == i < prefixsize - 1
IsCorrect(i, prefixsize) == i <= prefixsize - 1

\* m, the lowest cut index of the loop
LowestCutDeeper(n, max_suffix_size) == Max(n - (max_suffix_size + 2), 0)
LowestCutZero(n, max_suffix_size) == 0
LowestCut(n, max_suffix_size) == Max(n - (max_suffix_size + 1), 0)

\* one iteration of the loop of update
UpdateStep(M, inf, lem, infcodepoints, lemcodepoints, prefixsize, i, count) ==
    LET infsize == Len(infcodepoints)
        lemsize == Len(lemcodepoints)
        infsuf == substr(inf, infcodepoints[Min(infsize - 1, i) + 1])
        lemsuf == substr(lem, lemcodepoints[Min(lemsize - 1, i) + 1])
        M1 == IF IsCorrect(i, prefixsize)
              THEN update_replacement(M, infsuf, lemsuf, count, 0)
              ELSE update_replacement(M, infsuf, lemsuf, 0, count)
        M2 == update_lemma(M1, lemsuf, count, 0)
        M3 == update_lemma(M2, infsuf, 0, count)
        M4 == update_inflected(M3, infsuf, count, 0)
    IN  update_inflected(M4, lemsuf, 0, count)

RECURSIVE UpdateLoop(_, _, _, _, _, _, _, _, _)
UpdateLoop(M, inf, lem, infcp, lemcp, prefixsize, i, m, count) ==
    IF i < m THEN M
    ELSE UpdateLoop(UpdateStep(M, inf, lem, infcp, lemcp, prefixsize, i, count),
                    inf, lem, infcp, lemcp, prefixsize, i - 1, m, count)

\* Model::update: [err, model]; err is "" when nothing is thrown
update(M, inflected, lemma, count) ==
    IF is_trimmed(M) THEN [err |-> "Cannot update a trimmed model.", model |-> M]
    ELSE
    LET inf == <<Dollar>> \o inflected
        lem == <<Dollar>> \o lemma
        ic == store_codepoints(inf)
        lc == store_codepoints(lem)
    IN  IF ~ic.ok \/ ~lc.ok THEN [err |-> "Utf-8 decode error.", model |-> M]
        ELSE
        LET infcodepoints == Append(ic.v, Len(inf))
            lemcodepoints == Append(lc.v, Len(lem))
            n == Max(Len(infcodepoints), Len(lemcodepoints))
            m == LowestCut(n, M.max_suffix_size)
            prefixsize == common_prefix_size(inf, lem, infcodepoints, lemcodepoints)
        IN  [err |-> "",
             model |-> UpdateLoop(M, inf, lem, infcodepoints, lemcodepoints,
                                  prefixsize, n - 2, m, count)]

\* ---------------------------------------------------------------- trim
\* if (i->second.first == 0) erase
IsZeroFp(e) == e.fp = 0
IsZeroTp(e) == e.tp = 0

TrimTable(tbl) == SelectSeq(tbl, LAMBDA e : ~IsZeroTp(e))

TrimReplacements(reps) ==
    LET inner == [k \in 1..Len(reps) |->
                    [key |-> reps[k].key, inner |-> TrimTable(reps[k].inner)]]
    IN  SelectSeq(inner, LAMBDA r : Len(r.inner) # 0)

\* Model::trim
trim(M) ==
    IF is_trimmed(M) THEN M
    ELSE [ lemcounts |-> TrimTable(M.lemcounts),
           infcounts |-> TrimTable(M.infcounts),
           replacements |-> TrimReplacements(M.replacements),
           max_suffix_size |-> M.max_suffix_size,
           is_trimmed |-> TRUE ]

\* ---------------------------------------------------------------- lemmatize
\* A double that holds a ratio of counts is kept as the exact ratio n/d;
\* kind is "nan" for 0/0 and "inf" for a positive value divided by zero.
Fin(n, d) == [kind |-> "fin", n |-> n, d |-> d]
NaN == [kind |-> "nan", n |-> 0, d |-> 1]
Inf == [kind |-> "inf", n |-> 1, d |-> 1]

\* static_cast<double>(p.first) / (p.first + p.second)
compute_prob_fp(p) == IF p.tp + p.fp = 0 THEN NaN ELSE Fin(p.fp, p.tp + p.fp)
compute_prob(p) == IF p.tp + p.fp = 0 THEN NaN ELSE Fin(p.tp, p.tp + p.fp)

\* (prBA * prA) / prB
Bayes(prBA, prA, prB) ==
    IF "nan" \in {prBA.kind, prA.kind, prB.kind} THEN NaN
    ELSE IF prB.n = 0
         THEN (IF prBA.n * prA.n = 0 THEN NaN ELSE Inf)
         ELSE Fin(prBA.n * prA.n * prB.d, prBA.d * prA.d * prB.n)

\* x > y on doubles
Greater(x, y) ==
    CASE x.kind = "nan" \/ y.kind = "nan" -> FALSE
      [] x.kind = "inf" -> y.kind # "inf"
      [] y.kind = "inf" -> FALSE
      [] OTHER -> x.n * y.d > y.n * x.d

\* if (prAB > best_prob)
BeatsOrTies(prAB, best_prob) ==
    prAB.kind # "nan" /\ best_prob.kind # "nan" /\ ~Greater(best_prob, prAB)
Beats(prAB, best_prob) == Greater(prAB, best_prob)

\* the loop over the replacements of infsuf, from candidate k on
RECURSIVE CandidateLoop(_, _, _, _, _)
CandidateLoop(M, cands, k, prB, acc) ==
    IF k > Len(cands) THEN acc
    ELSE LET lemsuf == cands[k].key
             lemit == Find(M.lemcounts, lemsuf)
         IN  IF lemit = 0 THEN CandidateLoop(M, cands, k + 1, prB, acc)
             ELSE LET prA == compute_prob(M.lemcounts[lemit])
                      prBA == compute_prob(cands[k])
                      prAB == Bayes(prBA, prA, prB)
                  IN  IF Beats(prAB, acc.best_prob)
                      THEN CandidateLoop(M, cands, k + 1, prB,
                               [best_prob |-> prAB, lemsuf |-> lemsuf,
                                iter_found |-> TRUE])
                      ELSE CandidateLoop(M, cands, k + 1, prB, acc)

\* the loop over the cut indices, from i on
RECURSIVE SuffixLoop(_, _, _, _, _, _)
SuffixLoop(M, inflected, inf, codepoints, i, n) ==
    IF i >= n
    THEN [err |-> "", value |-> inflected, found |-> FALSE, cut |-> n, lemsuf |-> <<>>]
    ELSE LET infsuf == substr(inf, codepoints[i + 1])
             infit == Find(M.infcounts, infsuf)
             repit == Find(M.replacements, infsuf)
         IN  IF infit = 0 \/ repit = 0
             THEN SuffixLoop(M, inflected, inf, codepoints, i + 1, n)
             ELSE LET prB == compute_prob(M.infcounts[infit])
                      acc == CandidateLoop(M, M.replacements[repit].inner, 1, prB,
                                 [best_prob |-> Fin(0, 1), lemsuf |-> <<>>,
                                  iter_found |-> FALSE])
                      best_lemma == substr2(inf, 0, codepoints[i + 1]) \o acc.lemsuf
                  IN  IF acc.iter_found
                      THEN [err |-> "", value |-> substr(best_lemma, 1),
                            found |-> TRUE, cut |-> i, lemsuf |-> acc.lemsuf]
                      ELSE SuffixLoop(M, inflected, inf, codepoints, i + 1, n)

\* Model::lemmatize with the rule it applied: [err, value, found, cut, lemsuf]
LemmatizeRun(M, inflected) ==
    LET inf == suflem_trim(<<Dollar>> \o inflected)
        cp == store_codepoints(inf)
    IN  IF ~cp.ok
        THEN [err |-> "Utf-8 decode error!", value |-> <<>>, found |-> FALSE,
              cut |-> 0, lemsuf |-> <<>>]
        ELSE SuffixLoop(M, inflected, inf, Append(cp.v, Len(inf)), 0, Len(cp.v) + 1)

lemmatize(M, inflected) == LemmatizeRun(M, inflected).value

\* ---------------------------------------------------------------- save
\* fprintf "%ld"
RECURSIVE FormatDigits(_)
FormatDigits(n) ==
    IF n < 10 THEN <<48 + n>> ELSE FormatDigits(n \div 10) \o <<48 + (n % 10)>>

FormatLong(n) == IF n < 0 THEN <<45>> \o FormatDigits(0 - n) ELSE FormatDigits(n)

\* fprintf "%s\t%ld\t%ld\n"
FormatEntry(e) ==
    e.key \o <<Tab>> \o FormatLong(e.tp) \o <<Tab>> \o FormatLong(e.fp) \o <<Newline>>

RECURSIVE FormatTable(_, _)
FormatTable(tbl, k) ==
    IF k > Len(tbl) THEN <<>> ELSE FormatEntry(tbl[k]) \o FormatTable(tbl, k + 1)

RECURSIVE FormatReplacements(_, _)
FormatReplacements(reps, k) ==
    IF k > Len(reps) THEN <<>>
    ELSE reps[k].key \o <<Tab>> \o FormatLong(Len(reps[k].inner)) \o <<Newline>>
         \o FormatTable(reps[k].inner, 1) \o FormatReplacements(reps, k + 1)

\* Model::save: the bytes written
save(M) ==
    FormatLong(M.max_suffix_size) \o <<Tab>>
        \o FormatLong(IF M.is_trimmed THEN 1 ELSE 0) \o <<Newline>>
    \o FormatLong(Len(M.lemcounts)) \o <<Newline>> \o FormatTable(M.lemcounts, 1)
    \o FormatLong(Len(M.infcounts)) \o <<Newline>> \o FormatTable(M.infcounts, 1)
    \o FormatLong(Len(M.replacements)) \o <<Newline>>
    \o FormatReplacements(M.replacements, 1)

\* ---------------------------------------------------------------- fscanf
\* p is the number of bytes consumed so far
\* the byte classes the formats name
InClass(c, class) ==
    CASE class = "space" -> isspace(c)
      [] class = "digit" -> c \in 48..57
      [] class = "[^\\t]" -> c # Tab
      [] class = "[\\n]" -> c = Newline
      [] class = "[^\\n]" -> c # Newline

RECURSIVE SkipWhile(_, _, _)
SkipWhile(f, p, class) ==
    IF p < Len(f) /\ InClass(f[p + 1], class) THEN SkipWhile(f, p + 1, class) ELSE p

\* white space in a format, and the white space "%ld" skips
SkipSpace(f, p) == SkipWhile(f, p, "space")

RECURSIVE DigitsValue(_, _, _, _)
DigitsValue(f, from, to, acc) ==
    IF from >= to THEN acc
    ELSE DigitsValue(f, from + 1, to, acc * 10 + (f[from + 1] - 48))

\* "%ld" and "%d": [ok, val, pos]; save writes no sign, and none is read
ScanLong(f, p) ==
    LET q == SkipSpace(f, p)
        r == SkipWhile(f, q, "digit")
    IN  IF r = q THEN [ok |-> FALSE, val |-> 0, pos |-> q]
        ELSE [ok |-> TRUE, val |-> DigitsValue(f, q, r, 0), pos |-> r]

\* "%1024[^\t]": at least one and at most 1024 bytes other than a tab
ScanField(f, p) ==
    LET r == SkipWhile(f, p, "[^\\t]")
        e == Min(r, p + MAX_LINE_LENGTH)
    IN  IF e = p THEN [ok |-> FALSE, val |-> <<>>, pos |-> p]
        ELSE [ok |-> TRUE, val |-> substr2(f, p, e - p), pos |-> e]

\* "%*[\n]" and "%*[^\n]" at the end of a format
SkipNewlines(f, p) == SkipWhile(f, p, "[\\n]")
SkipLine(f, p) == SkipWhile(f, p, "[^\\n]")

\* "%ld%*[\n]"
ScanCount(f, p) ==
    LET n == ScanLong(f, p) IN
    IF n.ok THEN [ok |-> TRUE, val |-> n.val, pos |-> SkipNewlines(f, n.pos)] ELSE n

\* "%1024[^\t]\t%ld\t%ld%*[^\n]": [ok, key, tp, fp, pos]
ScanEntry(f, p) ==
    LET s == ScanField(f, p)
        tp == ScanLong(f, SkipSpace(f, s.pos))
        fp == ScanLong(f, SkipSpace(f, tp.pos))
    IN  IF s.ok /\ tp.ok /\ fp.ok
        THEN [ok |-> TRUE, key |-> s.val, tp |-> tp.val, fp |-> fp.val,
              pos |-> SkipLine(f, fp.pos)]
        ELSE [ok |-> FALSE, key |-> <<>>, tp |-> 0, fp |-> 0, pos |-> p]

\* "%1024[^\t]\t%ld%*[^\n]": [ok, key, val, pos]
ScanOuter(f, p) ==
    LET s == ScanField(f, p)
        n == ScanLong(f, SkipSpace(f, s.pos))
    IN  IF s.ok /\ n.ok
        THEN [ok |-> TRUE, key |-> s.val, val |-> n.val, pos |-> SkipLine(f, n.pos)]
        ELSE [ok |-> FALSE, key |-> <<>>, val |-> 0, pos |-> p]

\* ---------------------------------------------------------------- load
\* the loops of load return [ok, model, pos]
RECURSIVE ReadLemmas(_, _, _, _, _)
ReadLemmas(f, p, i, numlemmas, M) ==
    IF i >= numlemmas THEN [ok |-> TRUE, model |-> M, pos |-> p]
    ELSE LET e == ScanEntry(f, p) IN
         IF ~e.ok THEN [ok |-> FALSE, model |-> M, pos |-> p]
         ELSE ReadLemmas(f, e.pos, i + 1, numlemmas,
                         update_lemma(M, suflem_trim(e.key), e.tp, e.fp))

RECURSIVE ReadInflections(_, _, _, _, _)
ReadInflections(f, p, i, numinflections, M) ==
    IF i >= numinflections THEN [ok |-> TRUE, model |-> M, pos |-> p]
    ELSE LET e == ScanEntry(f, p) IN
         IF ~e.ok THEN [ok |-> FALSE, model |-> M, pos |-> p]
         ELSE ReadInflections(f, e.pos, i + 1, numinflections,
                              update_inflected(M, suflem_trim(e.key), e.tp, e.fp))

RECURSIVE ReadInner(_, _, _, _, _, _)
ReadInner(f, p, j, numlems, M, inf) ==
    IF j >= numlems THEN [ok |-> TRUE, model |-> M, pos |-> p]
    ELSE LET e == ScanEntry(f, p) IN
         IF ~e.ok THEN [ok |-> FALSE, model |-> M, pos |-> p]
         ELSE ReadInner(f, e.pos, j + 1, numlems,
                        update_replacement(M, inf, suflem_trim(e.key), e.tp, e.fp),
                        inf)

RECURSIVE ReadReplacements(_, _, _, _, _)
ReadReplacements(f, p, i, numreplacements, M) ==
    IF i >= numreplacements THEN [ok |-> TRUE, model |-> M, pos |-> p]
    ELSE LET o == ScanOuter(f, p) IN
         IF ~o.ok THEN [ok |-> FALSE, model |-> M, pos |-> p]
         ELSE LET r == ReadInner(f, o.pos, 0, o.val, M, suflem_trim(o.key)) IN
              IF ~r.ok THEN r
              ELSE ReadReplacements(f, r.pos, i + 1, numreplacements, r.model)

\* model._is_trimmed = static_cast<bool>(trimmed), set before the tables are read
LoadedEmptyUntrimmed(maxsuf, trimmed) == EmptyModel(maxsuf)
LoadedEmpty(maxsuf, trimmed) ==
    [EmptyModel(maxsuf) EXCEPT !.is_trimmed = (trimmed # 0)]

Failed(msg) == [err |-> msg, model |-> EmptyModel(1)]

\* Model::load on the bytes f, [err, model], one operator per step so that
\* each step sees the results of the steps before it
LoadDone(reps) ==
    IF ~reps.ok THEN Failed("Could not read model data.")
    ELSE [err |-> "", model |-> reps.model]

LoadReplacements(f, M, numreplacements) ==
    IF ~numreplacements.ok THEN Failed("Could not read the number of replacements")
    ELSE LoadDone(ReadReplacements(f, numreplacements.pos, 0, numreplacements.val, M))

LoadNumReplacements(f, infs) ==
    IF ~infs.ok THEN Failed("Could not read model data.")
    ELSE LoadReplacements(f, infs.model, ScanCount(f, infs.pos))

LoadInflections(f, M, numinflections) ==
    IF ~numinflections.ok THEN Failed("Could not read number of inflected forms.")
    ELSE LoadNumReplacements(f,
             ReadInflections(f, numinflections.pos, 0, numinflections.val, M))

LoadNumInflections(f, lems) ==
    IF ~lems.ok THEN Failed("Could not read model data.")
    ELSE LoadInflections(f, lems.model, ScanCount(f, lems.pos))

LoadLemmas(f, M, numlemmas) ==
    IF ~numlemmas.ok THEN Failed("Could not read number of lemmas.")
    ELSE LoadNumInflections(f, ReadLemmas(f, numlemmas.pos, 0, numlemmas.val, M))

\* "%ld\t%d%*[\n]", then Model model(maxsuf)
LoadHeader(f, maxsuf, trimmed) ==
    IF ~maxsuf.ok \/ ~trimmed.ok
    THEN Failed("Could not read max suffix size and trimmed state.")
    ELSE IF maxsuf.val < 1 \/ maxsuf.val > 1024
    THEN Failed("must be 1 <= max_suffix_size <= 1024")
    ELSE LoadLemmas(f, LoadedEmpty(maxsuf.val, trimmed.val),
                    ScanCount(f, SkipNewlines(f, trimmed.pos)))

LoadTrimmed(f, maxsuf) == LoadHeader(f, maxsuf, ScanLong(f, SkipSpace(f, maxsuf.pos)))

load(f) == LoadTrimmed(f, ScanLong(f, 0))

\* ---------------------------------------------------------------- actions
\* files written by hand rather than by save: the text save would write for
\* tables that no training produces
EditedFiles ==
    { save([ lemcounts |-> <<[key |-> <<97>>, tp |-> 0, fp |-> 1]>>,
             infcounts |-> <<[key |-> <<97>>, tp |-> 1, fp |-> 0]>>,
             replacements |->
                 <<[key |-> <<97>>,
                    inner |-> <<[key |-> <<97>>, tp |-> 0, fp |-> 1]>>]>>,
             max_suffix_size |-> 2, is_trimmed |-> TRUE ]),
      save([ lemcounts |-> <<[key |-> <<115>>, tp |-> 1, fp |-> 0]>>,
             infcounts |-> <<[key |-> <<97>>, tp |-> 0, fp |-> 0]>>,
             replacements |->
                 <<[key |-> <<97>>,
                    inner |-> <<[key |-> <<115>>, tp |-> 1, fp |-> 0]>>]>>,
             max_suffix_size |-> 2, is_trimmed |-> TRUE ]) }

NoFile == [exists |-> FALSE, bytes |-> <<>>]

Ret(op, err, arg, value) == [op |-> op, err |-> err, arg |-> arg, value |-> value]

\* history of a freshly constructed model and no file
NoHist ==
    [ log |-> <<>>,          \* update calls that built `model`, in order
      edited |-> FALSE,      \* a hand-edited file is behind `model`
      diskLog |-> <<>>,      \* the update calls behind the file
      diskEdited |-> FALSE,  \* the file is, or comes from, a hand-edited one
      diskModel |-> EmptyModel(1) ]  \* the model the file was saved from

\* Model::Model(max_suffix_size): 1 <= max_suffix_size <= 1024
InitWith(sizes) ==
    /\ model \in {EmptyModel(k) : k \in sizes}
    /\ frontInsert \in BOOLEAN
    /\ disk = NoFile
    /\ last = Ret("new", "", <<>>, <<>>)
    /\ hist = NoHist

Init == InitWith(1..MaxSuffix)

\* one corpus line handed to update by train: count > 0
UpdateCall(inflected, lemma, count) ==
    /\ LET r == update(model, inflected, lemma, count) IN
       /\ model' = r.model
       /\ last' = Ret("update", r.err, <<>>, <<>>)
       /\ hist' = [hist EXCEPT
                     !.log = IF r.err = ""
                             THEN Append(@, <<inflected, lemma, count>>) ELSE @]
    /\ UNCHANGED <<frontInsert, disk>>

Trim ==
    /\ model' = trim(model)
    /\ last' = Ret("trim", "", <<>>, <<>>)
    /\ UNCHANGED <<frontInsert, disk, hist>>

Lemmatize(inflected) ==
    /\ LET r == LemmatizeRun(model, inflected) IN
       last' = Ret("lemmatize", r.err, inflected, r.value)
    /\ UNCHANGED <<model, frontInsert, disk, hist>>

Save ==
    /\ disk' = [exists |-> TRUE, bytes |-> save(model)]
    /\ last' = Ret("save", "", <<>>, <<>>)
    /\ hist' = [hist EXCEPT !.diskLog = hist.log,
                            !.diskEdited = hist.edited, !.diskModel = model]
    /\ UNCHANGED <<model, frontInsert>>

\* Model::load returns a new Model; when it throws the caller has none and
\* keeps the one it had
Load ==
    /\ disk.exists
    /\ LET r == load(disk.bytes) IN
       /\ model' = IF r.err = "" THEN r.model ELSE model
       /\ last' = Ret("load", r.err, <<>>, <<>>)
       /\ hist' = IF r.err = ""
                  THEN [hist EXCEPT !.log = hist.diskLog, !.edited = hist.diskEdited]
                  ELSE hist
    /\ UNCHANGED <<frontInsert, disk>>

\* somebody edits the model file between save and load
HandEdit(bytes) ==
    /\ disk' = [exists |-> TRUE, bytes |-> bytes]
    /\ last' = Ret("edit", "", <<>>, <<>>)
    /\ hist' = [hist EXCEPT !.diskLog = <<>>,
                            !.diskEdited = TRUE, !.diskModel = EmptyModel(1)]
    /\ UNCHANGED <<model, frontInsert>>

Update(inflected, lemma, count) ==
    /\ Len(hist.log) < MaxUpdates
    /\ UpdateCall(inflected, lemma, count)

Next ==
    \/ \E p \in TrainPairs, c \in 1..MaxCount : Update(p[1], p[2], c)
    \/ Trim
    \/ \E w \in QueryWords : Lemmatize(w)
    \/ Save
    \/ Load
    \/ \E b \in EditedFiles : HandEdit(b)

Spec == Init /\ [][Next]_vars

\* ---------------------------------------------------------------- helpers of the properties
\* a table as the set of its entries, whatever the iteration order
AsSet(tbl) == {tbl[k] : k \in 1..Len(tbl)}

ReplacementsAsSet(reps) ==
    {[key |-> reps[k].key, inner |-> AsSet(reps[k].inner)] : k \in 1..Len(reps)}

SameTables(A, B) ==
    /\ AsSet(A.lemcounts) = AsSet(B.lemcounts)
    /\ AsSet(A.infcounts) = AsSet(B.infcounts)
    /\ ReplacementsAsSet(A.replacements) = ReplacementsAsSet(B.replacements)

\* training an empty store on the update calls of log, in order
RECURSIVE Replay(_, _, _)
Replay(log, k, M) ==
    IF k > Len(log) THEN M
    ELSE Replay(log, k + 1, update(M, log[k][1], log[k][2], log[k][3]).model)

Trained(log, max_suffix_size) == Replay(log, 1, EmptyModel(max_suffix_size))

HasZeroTp(M) ==
    \/ \E e \in AsSet(M.lemcounts) \cup AsSet(M.infcounts) : e.tp = 0
    \/ \E r \in AsSet(M.replacements) : \E e \in AsSet(r.inner) : e.tp = 0

\* the marked word of lemmatize and its cut offsets
Marked(w) == suflem_trim(<<Dollar>> \o w)
Cuts(w) == Append(store_codepoints(Marked(w)).v, Len(Marked(w)))
SuffixAt(w, i) == substr(Marked(w), Cuts(w)[i + 1])
PrefixAt(w, i) == substr2(Marked(w), 0, Cuts(w)[i + 1])

Entry(tbl, key) == tbl[Find(tbl, key)]

\* the candidate lemma suffixes of cut index i whose score
\* prBA * prA / prB is greater than zero
Positive(M, w, i) ==
    LET infsuf == SuffixAt(w, i) IN
    IF Find(M.infcounts, infsuf) = 0 \/ Find(M.replacements, infsuf) = 0 THEN {}
    ELSE LET b == Entry(M.infcounts, infsuf) IN
         { e \in AsSet(Entry(M.replacements, infsuf).inner) :
              /\ Find(M.lemcounts, e.key) # 0
              /\ e.tp > 0
              /\ Entry(M.lemcounts, e.key).tp > 0
              /\ b.tp + b.fp > 0 }

\* e scores at least as much as f, both candidates of the same cut index
\* (prB is shared; when it is zero every positive score is infinite)
ScoresAtLeast(M, w, i, e, f) ==
    LET b == Entry(M.infcounts, SuffixAt(w, i))
        ae == Entry(M.lemcounts, e.key)
        af == Entry(M.lemcounts, f.key)
    IN  \/ b.tp = 0
        \/ e.tp * ae.tp * (f.tp + f.fp) * (af.tp + af.fp)
             >= f.tp * af.tp * (e.tp + e.fp) * (ae.tp + ae.fp)

\* the score of candidate e of cut index i as lemmatize computes it
ScoreOf(M, w, i, e) ==
    Bayes(compute_prob(e), compute_prob(Entry(M.lemcounts, e.key)),
          compute_prob(Entry(M.infcounts, SuffixAt(w, i))))

\* ---------------------------------------------------------------- C1
\* C1: for a store built by update calls alone, lemmatize returns the same
\* string for every word before trim() and after it.
C1_TrimKeepsLemmatize ==
    (~model.is_trimmed /\ ~hist.edited) =>
        \A w \in QueryWords : lemmatize(trim(model), w) = lemmatize(model, w)

\* an untrimmed trained store from which trim removes entries, and a word
\* that a rule of the store rewrites
C1_Witness ==
    /\ ~model.is_trimmed /\ ~hist.edited /\ last.op = "update"
    /\ HasZeroTp(model)
    /\ Len(trim(model).replacements) < Len(model.replacements)
    /\ \E w \in QueryWords : LemmatizeRun(model, w).found

\* ---------------------------------------------------------------- C2
\* C2: lemmatize(w) returns, for the smallest cut index that has a candidate
\* of positive score, the marked word before that index followed by a
\* candidate of greatest score there, without the marker; it returns w
\* unchanged when no cut index has such a candidate.
C2_LongestSuffixFirst ==
    \A w \in QueryWords :
        LET n == Len(Cuts(w))
            I == {i \in 0..(n - 1) : Positive(model, w, i) # {}}
        IN  IF I = {} THEN lemmatize(model, w) = w
            ELSE LET i0 == CHOOSE i \in I : \A j \in I : i <= j IN
                 \E e \in Positive(model, w, i0) :
                    /\ \A f \in Positive(model, w, i0) :
                           ScoresAtLeast(model, w, i0, e, f)
                    /\ lemmatize(model, w) = Tail(PrefixAt(w, i0) \o e.key)

\* lemmatize has just answered from a cut index although a shorter suffix
\* holds a rule of strictly greater score
C2_Witness ==
    /\ last.op = "lemmatize"
    /\ LET w == last.arg
           r == LemmatizeRun(model, w)
       IN  /\ r.found
           /\ last.value = r.value
           /\ \E j \in (r.cut + 1)..(Len(Cuts(w)) - 1) :
                 \E f \in Positive(model, w, j) :
                    \A e \in Positive(model, w, r.cut) :
                       Greater(ScoreOf(model, w, j, f), ScoreOf(model, w, r.cut, e))

\* lemmatize has just returned its input because no suffix has a rule
C2_WitnessFallback ==
    /\ last.op = "lemmatize" /\ last.value = last.arg
    /\ Len(model.replacements) > 0
    /\ \A i \in 0..(Len(Cuts(last.arg)) - 1) : Positive(model, last.arg, i) = {}

\* ---------------------------------------------------------------- C3
\* C3: load of a file that save wrote succeeds, the loaded model lemmatizes
\* every word as the saved model does, and saving it again writes the same
\* bytes.
C3_RoundTrip ==
    (last.op = "load" /\ ~hist.diskEdited) =>
        /\ last.err = ""
        /\ \A w \in QueryWords : lemmatize(model, w) = lemmatize(hist.diskModel, w)
        /\ save(model) = disk.bytes

\* ---------------------------------------------------------------- C4
\* C4: an update call on a trimmed store throws and leaves the tables,
\* max_suffix_size and is_trimmed as they were.
C4_TrimmedUpdateFails ==
    [][(model.is_trimmed /\ last'.op = "update") =>
          (last'.err = "Cannot update a trimmed model." /\ model' = model)]_vars

\* an update call has just been refused by a trimmed store that holds entries
C4_Witness ==
    /\ last.op = "update" /\ last.err = "Cannot update a trimmed model."
    /\ model.is_trimmed
    /\ Len(model.lemcounts) > 0

\* ---------------------------------------------------------------- C5
\* C5 as claimed: while is_trimmed is true each of the three primitives fails,
\* so none creates or increments an entry, and a load that sets the flag ends
\* with empty tables.
C5_PrimitivesFrozen ==
    model.is_trimmed =>
        /\ \A k \in QueryWords :
              /\ update_lemma(model, k, 1, 0) = model
              /\ update_inflected(model, k, 1, 0) = model
              /\ update_replacement(model, k, k, 1, 0) = model
        /\ (last.op = "load" /\ last.err = "") =>
              /\ model.lemcounts = <<>>
              /\ model.infcounts = <<>>
              /\ model.replacements = <<>>

\* C5 amended: the primitives carry no check of is_trimmed; a successful load
\* of a file saved from a trimmed store sets is_trimmed first and then
\* rebuilds every saved entry through them, and on the loaded store they
\* still accumulate.
C5_LoadFillsTrimmedStore ==
    (last.op = "load" /\ last.err = "" /\ ~hist.diskEdited
        /\ hist.diskModel.is_trimmed) =>
        /\ model.is_trimmed
        /\ SameTables(model, hist.diskModel)
        /\ \A k \in QueryWords :
              /\ Entry(update_lemma(model, k, 1, 0).lemcounts, k).tp >= 1
              /\ Entry(update_inflected(model, k, 1, 0).infcounts, k).tp >= 1
              /\ Find(update_replacement(model, k, k, 1, 0).replacements, k) # 0

\* a trimmed store with entries has just been loaded from a saved file
C5_Witness ==
    /\ last.op = "load" /\ last.err = "" /\ ~hist.diskEdited
    /\ hist.diskModel.is_trimmed /\ model.is_trimmed
    /\ Len(model.lemcounts) > 0 /\ Len(model.infcounts) > 0
    /\ Len(model.replacements) > 0

\* ---------------------------------------------------------------- C6
\* C6 as claimed: whatever file was loaded, a store with is_trimmed true
\* holds no entry with tp = 0.
C6_TrimmedHasNoZeroTp == model.is_trimmed => ~HasZeroTp(model)

\* C6 amended: a store with is_trimmed true that no hand-edited file is
\* behind (built by update, trim, save and load of saved files) holds no
\* entry with tp = 0.
C6_TrimmedHasNoZeroTpUnlessEdited ==
    (model.is_trimmed /\ ~hist.edited) => ~HasZeroTp(model)

\* a store whose training left tp = 0 entries was trimmed, saved and loaded
C6_Witness ==
    /\ model.is_trimmed /\ ~hist.edited
    /\ last.op = "load" /\ last.err = ""
    /\ Len(model.lemcounts) > 0
    /\ HasZeroTp(Trained(hist.log, model.max_suffix_size))

\* ---------------------------------------------------------------- C7
KeptEntries(tbl) == {e \in AsSet(tbl) : e.tp > 0}

\* C7: trim() on an untrimmed store removes exactly the entries with tp = 0
\* from the three tables and the replacement keys left without entries,
\* keeps every other entry with its counts, and sets is_trimmed.
C7_TrimRemovesExactlyZeroTp ==
    [][(last'.op = "trim" /\ ~model.is_trimmed) =>
          /\ model'.is_trimmed
          /\ model'.max_suffix_size = model.max_suffix_size
          /\ AsSet(model'.lemcounts) = KeptEntries(model.lemcounts)
          /\ Len(model'.lemcounts) = Cardinality(KeptEntries(model.lemcounts))
          /\ AsSet(model'.infcounts) = KeptEntries(model.infcounts)
          /\ Len(model'.infcounts) = Cardinality(KeptEntries(model.infcounts))
          /\ ReplacementsAsSet(model'.replacements) =
                { [key |-> r.key, inner |-> KeptEntries(r.inner)] :
                    r \in {q \in AsSet(model.replacements) :
                              KeptEntries(q.inner) # {}} }
          /\ \A k \in 1..Len(model'.replacements) :
                Len(model'.replacements[k].inner)
                    = Cardinality(AsSet(model'.replacements[k].inner))
      ]_vars

\* trim has just removed entries and a whole replacement key of a trained store
C7_Witness ==
    /\ last.op = "trim" /\ model.is_trimmed /\ ~hist.edited
    /\ Len(model.lemcounts) > 0
    /\ Len(model.lemcounts) < Len(Trained(hist.log, model.max_suffix_size).lemcounts)
    /\ Len(model.replacements) > 0
    /\ Len(model.replacements)
         < Len(Trained(hist.log, model.max_suffix_size).replacements)

\* ---------------------------------------------------------------- C8
\* C8: on an untrimmed store, update with count c1 followed by update of the
\* same pair with count c2 leaves the tables that one update with c1 + c2
\* leaves.
C8_UpdateIsAdditive ==
    ~model.is_trimmed =>
        \A p \in TrainPairs : \A c1, c2 \in 1..MaxCount :
            SameTables(update(update(model, p[1], p[2], c1).model, p[1], p[2], c2).model,
                       update(model, p[1], p[2], c1 + c2).model)

\* the same pair has just been trained twice, on top of entries it shares
C8_Witness ==
    /\ ~model.is_trimmed /\ last.op = "update" /\ last.err = ""
    /\ Len(hist.log) = 2
    /\ hist.log[1][1] = hist.log[2][1] /\ hist.log[1][2] = hist.log[2][2]
    /\ SameTables(model,
                  update(EmptyModel(model.max_suffix_size), hist.log[1][1],
                         hist.log[1][2], hist.log[1][3] + hist.log[2][3]).model)

\* ---------------------------------------------------------------- C9
\* C9: load of a file saved from an untrimmed store trained on D1 succeeds,
\* and an update call on the loaded store leaves the tables and the
\* lemmatize results of one store trained on D1 and then on that call.
C9_LoadThenRetrain ==
    (last.op = "load" /\ ~hist.diskEdited /\ ~hist.diskModel.is_trimmed) =>
        /\ last.err = ""
        /\ \A p \in TrainPairs : \A c \in 1..MaxCount :
              LET loaded == update(model, p[1], p[2], c).model
                  union == update(Trained(hist.diskLog, hist.diskModel.max_suffix_size),
                                  p[1], p[2], c).model
              IN  /\ SameTables(loaded, union)
                  /\ \A w \in QueryWords : lemmatize(loaded, w) = lemmatize(union, w)

\* ---------------------------------------------------------------- a corpus of three lines
\* cats -> cat 5, dogs -> dog 5, cars -> car 3, read in file order by train
\* into a store with max_suffix_size 4
ScenarioCorpus ==
    << <<<<99, 97, 116, 115>>, <<99, 97, 116>>, 5>>,
       <<<<100, 111, 103, 115>>, <<100, 111, 103>>, 5>>,
       <<<<99, 97, 114, 115>>, <<99, 97, 114>>, 3>> >>

Rats == <<114, 97, 116, 115>>
Rat == <<114, 97, 116>>

\* rats, cats, is
ScenarioWords == { Rats, <<99, 97, 116, 115>>, <<105, 115>> }

InitScenario == InitWith({4})

\* train hands the next line of the corpus file to update
TrainLine ==
    /\ Len(hist.log) < Len(ScenarioCorpus)
    /\ hist.log = SubSeq(ScenarioCorpus, 1, Len(hist.log))
    /\ LET line == ScenarioCorpus[Len(hist.log) + 1] IN
       UpdateCall(line[1], line[2], line[3])

NextScenario ==
    \/ TrainLine
    \/ Trim
    \/ \E w \in ScenarioWords : Lemmatize(w)
    \/ Save
    \/ Load

SpecScenario == InitScenario /\ [][NextScenario]_vars

ScenarioTrained == hist.log = ScenarioCorpus /\ model.max_suffix_size = 4

\* ---------------------------------------------------------------- C10
\* C10 as claimed: after the three lines with max_suffix_size 4,
\* lemmatize("rats") is "rat" and the rule applied replaces the inflected
\* suffix "s" by the empty lemma suffix.
C10_RatsBySuffixS ==
    ScenarioTrained =>
        LET r == LemmatizeRun(model, Rats) IN
        /\ r.found /\ r.value = Rat
        /\ SuffixAt(Rats, r.cut) = <<115>> /\ r.lemsuf = <<>>

\* C10 amended: after the three lines with max_suffix_size 4,
\* lemmatize("rats") is "rat" and the rule applied is the one of the longest
\* suffix with statistics, cut index 2: "ats" replaced by "at".
C10_RatsBySuffixAts ==
    ScenarioTrained =>
        LET r == LemmatizeRun(model, Rats) IN
        /\ r.found /\ r.value = Rat
        /\ r.cut = 2
        /\ SuffixAt(Rats, r.cut) = <<97, 116, 115>> /\ r.lemsuf = <<97, 116>>

\* lemmatize("rats") has just answered "rat" on the store of the three lines,
\* which also holds the rule "s" -> ""
C10_Witness ==
    /\ ScenarioTrained
    /\ last.op = "lemmatize" /\ last.arg = Rats /\ last.value = Rat
    /\ Find(model.replacements, <<115>>) # 0
    /\ Find(Entry(model.replacements, <<115>>).inner, <<>>) # 0

\* ---------------------------------------------------------------- words in UTF-8
\* 'a' 97, 'b' 98, 'c' 99; 195 169 is e-acute, 195 170 e-circumflex;
\* 195 opens a two-byte and 226 a three-byte sequence, 169 and 130 are
\* continuation bytes, 255 is no UTF-8 byte at all
Utf8Words ==
    { <<97>>, <<97, 98>>, <<97, 98, 99>>,
      <<195, 169>>, <<195, 170>>, <<97, 195, 169>>,
      <<195>>, <<97, 195>>, <<226, 130>>,
      <<169>>, <<169, 97>>,
      <<255>> }

\* store_codepoints on a string of its own
Segment(s) ==
    /\ LET r == store_codepoints(s) IN
       last' = Ret("store_codepoints", IF r.ok THEN "" ELSE "false", s, r.v)
    /\ UNCHANGED <<model, frontInsert, disk, hist>>

\* update on the freshly constructed store
UpdateWord(inflected, lemma, count) ==
    /\ hist.log = <<>>
    /\ LET r == update(model, inflected, lemma, count) IN
       /\ model' = r.model
       /\ last' = Ret("update", r.err, <<inflected, lemma, count>>, <<>>)
       /\ hist' = [hist EXCEPT
                     !.log = IF r.err = ""
                             THEN Append(@, <<inflected, lemma, count>>) ELSE @]
    /\ UNCHANGED <<frontInsert, disk>>

NextWords ==
    \/ \E i \in Utf8Words, l \in Utf8Words, c \in 1..MaxCount : UpdateWord(i, l, c)
    \/ \E w \in Utf8Words : Lemmatize(w)
    \/ \E s \in Utf8Words : Segment(s)

SpecWords == Init /\ [][NextWords]_vars

\* ---------------------------------------------------------------- helpers of the properties on words
\* the length a leading byte declares: 1 for ASCII, 2..6 by its bit pattern,
\* 0 for a byte that opens nothing
SequenceLength(c) ==
    IF \E j \in 1..6 : Shr(c, shift[j]) = masks[j]
    THEN CHOOSE j \in 1..6 : Shr(c, shift[j]) = masks[j]
    ELSE 0

Continuation(c) == c \div 64 = 2

\* the last sequence of s has fewer bytes than its leading byte declares
EndsMidSequence(s) ==
    \E p \in 1..Len(s) :
        /\ SequenceLength(s[p]) > 1
        /\ p + SequenceLength(s[p]) - 1 > Len(s)
        /\ \A q \in (p + 1)..Len(s) : Continuation(s[q])

StartsWithContinuation(s) == s # <<>> /\ Continuation(s[1])

Undecodable(s) == EndsMidSequence(s) \/ StartsWithContinuation(s)

\* ---------------------------------------------------------------- C11
\* C11: store_codepoints fails on every byte string that ends in the middle
\* of a multi-byte sequence and on every byte string whose first byte is a
\* continuation byte, and update and lemmatize throw the decode error on a
\* word of either shape.
C11_UndecodableFails ==
    /\ (last.op = "store_codepoints" /\ Undecodable(last.arg)) => last.err # ""
    /\ (last.op = "lemmatize" /\ Undecodable(last.arg))
           => last.err = "Utf-8 decode error!"
    /\ (last.op = "update" /\ (Undecodable(last.arg[1]) \/ Undecodable(last.arg[2])))
           => last.err = "Utf-8 decode error."

\* ---------------------------------------------------------------- train
\* one pass of the reading loop,
\* fscanf(fin, "%1024[^\t]\t%1024[^\t]\t%ld%*[\n]", inflected, lemma, &count):
\* n is the number of fields converted; pos is the first byte not consumed,
\* and when n < 3 the byte the scan stopped at
ScanLine(f, p) ==
    LET a == ScanField(f, p)
        b == ScanField(f, SkipSpace(f, a.pos))
        c == ScanLong(f, SkipSpace(f, b.pos))
    IN  IF ~a.ok THEN [n |-> 0, inflected |-> <<>>, lemma |-> <<>>, count |-> 0,
                       pos |-> a.pos]
        ELSE IF ~b.ok THEN [n |-> 1, inflected |-> a.val, lemma |-> <<>>, count |-> 0,
                            pos |-> b.pos]
        ELSE IF ~c.ok THEN [n |-> 2, inflected |-> a.val, lemma |-> b.val, count |-> 0,
                            pos |-> c.pos]
        ELSE [n |-> 3, inflected |-> a.val, lemma |-> b.val, count |-> c.val,
              pos |-> SkipNewlines(f, c.pos)]

\* feof(fin) once a scan has stopped at byte p: the end of the file was hit
feof(f, p) == p >= Len(f)

Thrown(msg, M, log) == [err |-> msg, model |-> M, log |-> log]

\* after the loop: if (!feof(fin)) throw "Read error after line N";
\* otherwise return model
TrainEndSilently(f, p, M, log, lineno) == Thrown("", M, log)
TrainEnd(f, p, M, log, lineno) ==
    IF ~feof(f, p)
    THEN Thrown("Read error after line " \o ToString(lineno), M, log)
    ELSE Thrown("", M, log)

\* the reading loop of train: [err, model, log], log the update calls made
RECURSIVE TrainLoop(_, _, _, _, _)
TrainLoop(f, p, M, log, lineno) ==
    LET r == ScanLine(f, p) IN
    IF r.n # 3 THEN TrainEnd(f, r.pos, M, log, lineno)
    ELSE
    LET inf == suflem_trim(r.inflected)
        lem == suflem_trim(r.lemma)
    IN  IF inf = <<>> \/ lem = <<>>
        THEN Thrown("Zero-length string on line " \o ToString(lineno), M, log)
        ELSE IF r.count <= 0
        THEN Thrown("count<=0 on line " \o ToString(lineno), M, log)
        ELSE LET u == update(M, inf, lem, r.count) IN
             IF u.err # "" THEN Thrown(u.err, M, log)
             ELSE TrainLoop(f, r.pos, u.model,
                            Append(log, <<inf, lem, r.count>>), lineno + 1)

\* Model::train(filename, max_suffix_size) on a file that opens
train(f, max_suffix_size) ==
    TrainLoop(f, 0, EmptyModel(max_suffix_size), <<>>, 0)

\* ---------------------------------------------------------------- corpus files
MaxLines == 3  \* lines of a corpus file

\* lines of a corpus file, without their newline: 'a' 97, 's' 115, 'x' 120,
\* '1' 49, '2' 50; no line holds a sign or a blank
CorpusLines ==
    { <<97, Tab, 97, Tab, 49>>,            \* a TAB a TAB 1
      <<97, 115, Tab, 97, Tab, 50>>,       \* as TAB a TAB 2
      <<>>,                                \* an empty line
      <<97, Tab, 97, Tab, 120>>,           \* a TAB a TAB x: the count is no number
      <<97, Tab, 97, Tab, 49, Tab, 97>>,   \* a TAB a TAB 1 TAB a: four fields
      <<97, Tab, 97>>,                     \* a TAB a: two fields
      <<97>> }                             \* a: one field

RECURSIVE JoinLines(_)
JoinLines(ls) ==
    IF ls = <<>> THEN <<>> ELSE Head(ls) \o <<Newline>> \o JoinLines(Tail(ls))

Corpora ==
    { JoinLines(ls) : ls \in UNION { [1..k -> CorpusLines] : k \in 0..MaxLines } }

\* train_model: Model model = Model::train(train_path, max_suffix_size)
Train(corpus) ==
    /\ last.op = "new"
    /\ LET r == train(corpus, model.max_suffix_size) IN
       /\ model' = IF r.err = "" THEN r.model ELSE model
       /\ last' = Ret("train", r.err, corpus, <<>>)
       /\ hist' = [hist EXCEPT !.log = IF r.err = "" THEN r.log ELSE @]
    /\ UNCHANGED <<frontInsert, disk>>

\* train_model: model.trim() on the model train returned
TrimTrained == last.op = "train" /\ last.err = "" /\ Trim

\* train_model: Model::save(model, model_path) after the trim
SaveTrained == last.op = "trim" /\ Save

NextTrain ==
    \/ \E corpus \in Corpora : Train(corpus)
    \/ TrimTrained
    \/ SaveTrained

SpecTrain == Init /\ [][NextTrain]_vars

\* ---------------------------------------------------------------- helpers of the properties on corpus files
\* the pieces of s between the bytes sep
RECURSIVE SplitAt(_, _, _)
SplitAt(s, sep, cur) ==
    IF s = <<>> THEN <<cur>>
    ELSE IF Head(s) = sep THEN <<cur>> \o SplitAt(Tail(s), sep, <<>>)
    ELSE SplitAt(Tail(s), sep, Append(cur, Head(s)))

\* the lines of a file in which every line ends with a newline
LinesOf(f) ==
    LET parts == SplitAt(f, Newline, <<>>) IN SubSeq(parts, 1, Len(parts) - 1)

Fields(line) == SplitAt(line, Tab, <<>>)

IsNumber(fld) == fld # <<>> /\ \A k \in 1..Len(fld) : fld[k] \in 48..57

RECURSIVE NumberOf(_)
NumberOf(fld) ==
    IF fld = <<>> THEN 0
    ELSE 10 * NumberOf(SubSeq(fld, 1, Len(fld) - 1)) + (fld[Len(fld)] - 48)

\* inflected TAB lemma TAB count, count a positive integer
ThreeFields(fs) ==
    /\ Len(fs) = 3 /\ fs[1] # <<>> /\ fs[2] # <<>>
    /\ IsNumber(fs[3]) /\ NumberOf(fs[3]) > 0

WellFormed(line) == ThreeFields(Fields(line))

\* a line that is neither well-formed nor empty
Unreadable(line) == line # <<>> /\ ~WellFormed(line)

\* the third field is there and does not start like a number
BadCount(line) ==
    LET fs == Fields(line) IN
    /\ Len(fs) >= 3 /\ fs[1] # <<>> /\ fs[2] # <<>> /\ fs[3] # <<>>
    /\ fs[3][1] \notin (48..57) \cup {43, 45}
    /\ ~isspace(fs[3][1])

\* three well-formed fields and more after them
ExtraFields(line) ==
    LET fs == Fields(line) IN Len(fs) > 3 /\ ThreeFields(SubSeq(fs, 1, 3))

\* one or two fields
FewFields(line) ==
    LET fs == Fields(line) IN
    Len(fs) < 3 /\ \A k \in 1..Len(fs) : fs[k] # <<>>

\* the update calls of the well-formed lines of ls, in order
RECURSIVE UpdatesOf(_)
UpdatesOf(ls) ==
    IF ls = <<>> THEN <<>>
    ELSE LET fs == Fields(Head(ls)) IN
         (IF WellFormed(Head(ls)) THEN << <<fs[1], fs[2], NumberOf(fs[3])>> >> ELSE <<>>)
         \o UpdatesOf(Tail(ls))

\* the index of the first unreadable line, 0 when there is none
FirstUnreadable(ls) ==
    IF \E j \in 1..Len(ls) : Unreadable(ls[j])
    THEN CHOOSE j \in 1..Len(ls) :
             Unreadable(ls[j]) /\ \A i \in 1..(j - 1) : ~Unreadable(ls[i])
    ELSE 0

ReadError(lineno) == "Read error after line " \o ToString(lineno)

Updated == last.op = "update" /\ last.err = ""

MarkedInf == <<Dollar>> \o last.arg[1]
MarkedLem == <<Dollar>> \o last.arg[2]
CountOfCall == last.arg[3]

\* the codepoint offsets of s and, last, its length
Offsets(s) == Append(store_codepoints(s).v, Len(s))
CodepointCount(s) == Len(store_codepoints(s).v)

\* n of update: the larger codepoint count of the marked strings, plus one
SizeOfCall == Max(CodepointCount(MarkedInf), CodepointCount(MarkedLem)) + 1

\* the replacement pairs in the store
RecordedPairs ==
    UNION { { <<r.key, e.key>> : e \in AsSet(r.inner) } :
            r \in AsSet(model.replacements) }

\* inf ends with infsuf, and inf with that ending replaced by lemsuf is lem
Reconstructs(inf, infsuf, lemsuf, lem) ==
    /\ Len(infsuf) <= Len(inf)
    /\ SubSeq(inf, Len(inf) - Len(infsuf) + 1, Len(inf)) = infsuf
    /\ SubSeq(inf, 1, Len(inf) - Len(infsuf)) \o lemsuf = lem

\* the bytes of codepoint k (from 0) of s
CodepointAt(s, k) == SubSeq(s, Offsets(s)[k + 1] + 1, Offsets(s)[k + 2])

\* how many leading codepoints a and b share byte for byte
SharedCodepoints(a, b) ==
    LET N == Min(CodepointCount(a), CodepointCount(b)) IN
    CHOOSE k \in 0..N :
        /\ \A j \in 0..(k - 1) : CodepointAt(a, j) = CodepointAt(b, j)
        /\ k = N \/ CodepointAt(a, k) # CodepointAt(b, k)

\* the suffix of s from codepoint i on, empty from the end of s on
SuffixFrom(s, i) ==
    IF i >= CodepointCount(s) THEN <<>> ELSE substr(s, Offsets(s)[i + 1])

\* the suffix pairs of the call at the cut indices lo..hi
CutPairs(lo, hi) ==
    { <<SuffixFrom(MarkedInf, i), SuffixFrom(MarkedLem, i)>> : i \in lo..hi }

StartsWithMarker(s) == s # <<>> /\ s[1] = Dollar

\* ---------------------------------------------------------------- C13
\* C13: every suffix pair an update call records is a true positive
\* (tp += count, fp += 0) exactly when replacing infSuf by lemSuf at the end
\* of the marked inflected string gives the marked lemma, and a false
\* positive (tp += 0, fp += count) otherwise; for identical inflected and
\* lemma every pair is a true positive.
C13_TruePositiveIffReconstructs ==
    Updated =>
        /\ \A r \in AsSet(model.replacements) : \A e \in AsSet(r.inner) :
               IF Reconstructs(MarkedInf, r.key, e.key, MarkedLem)
               THEN e.tp = CountOfCall /\ e.fp = 0
               ELSE e.tp = 0 /\ e.fp = CountOfCall
        /\ MarkedInf = MarkedLem =>
               \A r \in AsSet(model.replacements) : \A e \in AsSet(r.inner) :
                   e.tp = CountOfCall /\ e.fp = 0

\* update("ab", e-acute, c) has recorded a true and a false positive
C13_Witness ==
    /\ Updated
    /\ last.arg[1] = <<97, 98>> /\ last.arg[2] = <<195, 169>>
    /\ \E r \in AsSet(model.replacements) : \E e \in AsSet(r.inner) : e.tp > 0
    /\ \E r \in AsSet(model.replacements) : \E e \in AsSet(r.inner) : e.fp > 0

\* ---------------------------------------------------------------- C14
\* prefixsize of the call: common_prefix_size on the marked strings and their
\* offset lists, which hold the end position by then
PrefixsizeOfCall ==
    common_prefix_size(MarkedInf, MarkedLem, Offsets(MarkedInf), Offsets(MarkedLem))

\* the pairs the call stored as true positives
TruePositives ==
    UNION { { <<r.key, e.key>> : e \in {x \in AsSet(r.inner) : x.tp > 0} } :
            r \in AsSet(model.replacements) }

\* C14 as claimed: the prefixLen that update compares against equals the
\* number of leading codepoints the marked strings share byte for byte.
C14_PrefixsizeIsShared ==
    Updated => PrefixsizeOfCall = SharedCodepoints(MarkedInf, MarkedLem)

\* C14 amended: the prefixLen that update compares against is one more than
\* the number of leading codepoints the marked strings share byte for byte,
\* so the true positives of a call are its cuts i with i <= that number.
C14_PrefixsizeIsSharedPlusOne ==
    Updated =>
        LET shared == SharedCodepoints(MarkedInf, MarkedLem)
            m == Max(SizeOfCall - model.max_suffix_size - 1, 0)
        IN  /\ PrefixsizeOfCall = shared + 1
            /\ TruePositives = CutPairs(m, Min(SizeOfCall - 2, shared))

\* update(e-acute, e-circumflex, c): the two codepoints start and end at the
\* same offsets and differ in their second byte
C14_Witness ==
    /\ Updated
    /\ last.arg[1] = <<195, 169>> /\ last.arg[2] = <<195, 170>>
    /\ SharedCodepoints(MarkedInf, MarkedLem) = 1
    /\ TruePositives # {}

\* ---------------------------------------------------------------- C15
\* C15 as claimed: update examines the cut indices n-2 down to
\* max(n - maxSuffixSize - 2, 0), so one call records
\* min(n - 1, maxSuffixSize + 1) suffix pairs.
C15_CutsDownToSizeMinusTwo ==
    Updated =>
        LET n == SizeOfCall
            mss == model.max_suffix_size
        IN  /\ RecordedPairs = CutPairs(Max(n - mss - 2, 0), n - 2)
            /\ Cardinality(RecordedPairs) = Min(n - 1, mss + 1)

\* C15 amended: update examines the cut indices n-2 down to
\* max(n - maxSuffixSize - 1, 0), so one call records
\* min(n - 1, maxSuffixSize) suffix pairs.
C15_CutsDownToSizeMinusOne ==
    Updated =>
        LET n == SizeOfCall
            mss == model.max_suffix_size
        IN  /\ RecordedPairs = CutPairs(Max(n - mss - 1, 0), n - 2)
            /\ Cardinality(RecordedPairs) = Min(n - 1, mss)

\* a call whose words are too long for every cut to be examined
C15_Witness ==
    /\ Updated
    /\ SizeOfCall - model.max_suffix_size - 1 > 0
    /\ Cardinality(RecordedPairs) = model.max_suffix_size

\* ---------------------------------------------------------------- C16
\* the call recorded a pair of two suffixes that start with the marker
MarkerPairRecorded ==
    \E p \in RecordedPairs : StartsWithMarker(p[1]) /\ StartsWithMarker(p[2])

\* C16 as claimed: every update call records at least one suffix pair whose
\* inflected suffix and lemma suffix both start with the start marker.
C16_MarkerPairAlways == Updated => MarkerPairRecorded

\* C16 amended: an update call records a suffix pair whose two suffixes start
\* with the start marker exactly when the longer marked word has at most
\* maxSuffixSize codepoints (n - 1 <= maxSuffixSize).
C16_MarkerPairIffShort ==
    Updated => (MarkerPairRecorded <=> SizeOfCall - 1 <= model.max_suffix_size)

\* update("a", "a", c) with maxSuffixSize 1 recorded "a" -> "a" only
C16_Witness ==
    /\ Updated
    /\ last.arg[1] = <<97>> /\ last.arg[2] = <<97>>
    /\ model.max_suffix_size = 1
    /\ RecordedPairs = { <<<<97>>, <<97>>>> }

====
